---- MODULE Spec2Model ----
(***************************************************************************)
(* Model of advanced_progress_bot.py: main(), ProgressBot and its report   *)
(* pipeline (discover -> fetch per milestone -> build blocks -> send).     *)
(*                                                                         *)
(* Percentages are Python floats in the source.  A percentage is carried   *)
(* as the exact rational [n, d] (lowest terms) it stands for; the          *)
(* arithmetic of create_progress_bar, percentage / 100 * width followed by *)
(* int(), is evaluated in IEEE-754 binary64 with round-to-nearest-even on  *)
(* bit strings, as CPython evaluates it.                                   *)
(* Wall-clock texts (report date, footer time stamp) and the free text of  *)
(* the info section are carried as fixed strings.                          *)
(***************************************************************************)
EXTENDS Integers, Sequences, FiniteSets, TLC

\* ---- bounds -------------------------------------------------------------
MaxMilestones == 2
MaxIssues == 2
MaxWidth == 50
FracBits == 1

\* ---- program constants --------------------------------------------------
DefaultWidth == 20

VARIABLES pc, env, bot, remote, milestones, milestones_data,
          all_blocks, requests, send_calls, out, success,
          percentage, width, bar, emoji

vars == <<pc, env, bot, remote, milestones, milestones_data,
          all_blocks, requests, send_calls, out, success,
          percentage, width, bar, emoji>>

reportVars == <<env, bot, remote, milestones, milestones_data,
                all_blocks, requests, send_calls, out, success>>

pureVars == <<percentage, width, bar, emoji>>

\* ---- values -------------------------------------------------------------
None == "None"
NoData == [none |-> TRUE]
NoBot == [none |-> TRUE]

EnvVars == {"GITHUB_TOKEN", "SLACK_BOT_TOKEN", "SLACK_USER_ID"}
EnvValues == {None, "", "value"}

Titles == <<"Alpha", "Beta", "Gamma", "Delta", "Epsilon">>

\* ---- exact arithmetic on percentages ------------------------------------
RECURSIVE GCD(_, _)
GCD(a, b) == IF b = 0 THEN a ELSE GCD(b, a % b)

Rat(n, d) == LET g == GCD(n, d) IN [n |-> n \div g, d |-> d \div g]

Zero == Rat(0, 1)

RatAdd(p, q) == Rat(p.n * q.d + q.n * p.d, p.d * q.d)

RatDivInt(p, k) == Rat(p.n, p.d * k)

\* p >= k for an integer k
RatGeq(p, k) == p.n >= k * p.d

\* ---- binary64 arithmetic on values >= 0 ----------------------------------
\* A double is [bits, exp]: 53 bits, most significant first and leading bit 1,
\* standing for bits * 2^exp; zero has no bits.
FloatZero == [bits |-> <<>>, exp |-> 0]

Zeros(k) == [i \in 1..k |-> 0]

RECURSIVE IntToBits(_)
IntToBits(n) == IF n = 0 THEN <<>> ELSE Append(IntToBits(n \div 2), n % 2)

RECURSIVE BitsToInt(_)
BitsToInt(b) ==
    IF Len(b) = 0 THEN 0
    ELSE 2 * BitsToInt(SubSeq(b, 1, Len(b) - 1)) + b[Len(b)]

RECURSIVE StripZeros(_)
StripZeros(b) == IF Len(b) > 0 /\ b[1] = 0 THEN StripZeros(Tail(b)) ELSE b

\* b + 1; one bit longer when b is all ones
RECURSIVE Increment(_)
Increment(b) ==
    IF Len(b) = 0 THEN <<1>>
    ELSE IF b[Len(b)] = 0 THEN Append(SubSeq(b, 1, Len(b) - 1), 1)
    ELSE Append(Increment(SubSeq(b, 1, Len(b) - 1)), 0)

\* the double nearest to q * 2^e (ties to even); sticky says that the exact
\* value has a nonzero part below the last bit of q
RoundToDouble(q, e, sticky) ==
    LET s == StripZeros(q)
        L == Len(s)
    IN IF L = 0 THEN FloatZero
       ELSE IF L <= 53 THEN [bits |-> s \o Zeros(53 - L), exp |-> e - (53 - L)]
       ELSE LET kept == SubSeq(s, 1, 53)
                rest == sticky \/ \E i \in 55..L : s[i] = 1
                up == s[54] = 1 /\ (rest \/ kept[53] = 1)
                r == IF up THEN Increment(kept) ELSE kept
            IN IF Len(r) > 53
               THEN [bits |-> SubSeq(r, 1, 53), exp |-> e + (L - 53) + 1]
               ELSE [bits |-> r, exp |-> e + (L - 53)]

\* long division of a bit string by k > 0: quotient bits and remainder
RECURSIVE DivBits(_, _, _, _)
DivBits(b, k, r, q) ==
    IF Len(b) = 0 THEN [q |-> q, r |-> r]
    ELSE LET t == 2 * r + Head(b)
         IN DivBits(Tail(b), k, IF t >= k THEN t - k ELSE t,
                    Append(q, IF t >= k THEN 1 ELSE 0))

\* product of a bit string and k >= 0
RECURSIVE MulBits(_, _, _)
MulBits(b, k, carry) ==
    IF Len(b) = 0 THEN IntToBits(carry)
    ELSE LET t == b[Len(b)] * k + carry
         IN IF t % 2 = 0
            THEN Append(MulBits(SubSeq(b, 1, Len(b) - 1), k, t \div 2), 0)
            ELSE Append(MulBits(SubSeq(b, 1, Len(b) - 1), k, t \div 2), 1)

\* quotient bits computed below the last bit of the dividend before rounding
ExtraBits == 12

\* the double n / d of two small integers, n >= 0, 0 < d < 2^ExtraBits / 4
FloatOfRatio(n, d) ==
    LET dv == DivBits(IntToBits(n) \o Zeros(53 + ExtraBits), d, 0, <<>>)
    IN RoundToDouble(dv.q, 0 - (53 + ExtraBits), dv.r # 0)

\* x / k for an integer 0 < k < 2^ExtraBits / 4
FloatDivInt(x, k) ==
    IF Len(x.bits) = 0 THEN FloatZero
    ELSE LET dv == DivBits(x.bits \o Zeros(ExtraBits), k, 0, <<>>)
         IN RoundToDouble(dv.q, x.exp - ExtraBits, dv.r # 0)

\* x * k for an integer k >= 0
FloatMulInt(x, k) ==
    IF Len(x.bits) = 0 THEN FloatZero
    ELSE RoundToDouble(MulBits(x.bits, k, 0), x.exp, FALSE)

\* int(x) for 0 <= x < 2^31
FloatTrunc(x) ==
    IF Len(x.bits) = 0 \/ 53 + x.exp <= 0 THEN 0
    ELSE BitsToInt(SubSeq(x.bits, 1, 53 + x.exp))

\* Python truthiness of the values the program tests
Falsy(v) == v = None \/ v = ""

Truthy(data) == "title" \in DOMAIN data

Repeat(c, k) == [i \in 1..k |-> c]

\* ---- main(): validation of the environment ------------------------------
missing_variable_no_user_id(e) ==
    IF Falsy(e["GITHUB_TOKEN"]) THEN "GITHUB_TOKEN"
    ELSE IF Falsy(e["SLACK_BOT_TOKEN"]) THEN "SLACK_BOT_TOKEN"
    ELSE ""

\* the variable main() reports as missing ("" when none is)
missing_variable(e) ==
    IF Falsy(e["GITHUB_TOKEN"]) THEN "GITHUB_TOKEN"
    ELSE IF Falsy(e["SLACK_BOT_TOKEN"]) THEN "SLACK_BOT_TOKEN"
    ELSE IF Falsy(e["SLACK_USER_ID"]) THEN "SLACK_USER_ID"
    ELSE ""

ProgressBot(slack_token, github_token, user_id) ==
    [slack_token |-> slack_token, github_token |-> github_token,
     user_id |-> user_id, repo_owner |-> "leyangloh",
     repo_name |-> "FakeProgress"]

Line(msg, name, n) == [msg |-> msg, name |-> name, n |-> n]

Req(api, op, number, response) ==
    [api |-> api, op |-> op, number |-> number, response |-> response]

\* ---- discover_all_milestones ---------------------------------------------
emoji_map == <<"rocket", "microscope", "bar_chart", "dart", "trophy", "star">>

milestone_color(milestone) ==
    IF milestone.state = "closed" THEN "#28a745"
    ELSE IF milestone.open_issues = 0 THEN "#ffc107"
    ELSE "#007bff"

ProjectConfig(i, milestone) ==
    [name |-> milestone.title,
     repo_owner |-> "leyangloh",
     repo_name |-> "FakeProgress",
     milestone_number |-> milestone.number,
     emoji |-> emoji_map[(i % Len(emoji_map)) + 1],
     color |-> milestone_color(milestone)]

\* i enumerates from 0 in the source
discover_all_milestones(response) ==
    [j \in 1..Len(response) |-> ProjectConfig(j - 1, response[j])]

\* ---- get_milestone_data ---------------------------------------------------
progress_percentage_fraction(closed_issues, total_issues) ==
    IF total_issues > 0 THEN Rat(closed_issues, total_issues) ELSE Zero

progress_percentage(closed_issues, total_issues) ==
    IF total_issues > 0 THEN Rat(closed_issues * 100, total_issues) ELSE Zero

get_milestone_data(milestone) ==
    LET total_issues == milestone.open_issues + milestone.closed_issues
        closed_issues == milestone.closed_issues
    IN [title |-> milestone.title,
        total_issues |-> total_issues,
        closed_issues |-> closed_issues,
        open_issues |-> milestone.open_issues,
        progress_percentage |-> progress_percentage(closed_issues, total_issues),
        state |-> milestone.state]

\* ---- create_progress_bar / get_status_emoji -------------------------------
\* percentages in [0, 100] that are exact doubles: multiples of 2^-FracBits
Percentages == {Rat(n, 2 ^ FracBits) : n \in 0..(100 * 2 ^ FracBits)}

\* the percentages get_milestone_data can produce
FetchedPercentages ==
    {progress_percentage(c, o + c) : o \in 0..MaxIssues, c \in 0..MaxIssues}

Widths == 0..(IF MaxWidth > DefaultWidth THEN MaxWidth ELSE DefaultWidth)

\* int(percentage / 100 * width) in binary64, tabulated over the arguments
\* in use; FloatOfRatio(p.n, p.d) is the double of the argument
filled_cells ==
    [p \in Percentages \cup FetchedPercentages |->
        LET quotient == FloatDivInt(FloatOfRatio(p.n, p.d), 100)
        IN [w \in Widths |-> FloatTrunc(FloatMulInt(quotient, w))]]

create_progress_bar(p, w) ==
    LET filled == filled_cells[p][w]
        empty == w - filled
    IN Repeat("#", filled) \o Repeat("-", empty)

get_status_emoji_strict(p) ==
    IF p.n > 100 * p.d THEN "complete"
    ELSE IF p.n > 75 * p.d THEN "high"
    ELSE IF p.n > 50 * p.d THEN "medium"
    ELSE IF p.n > 25 * p.d THEN "low"
    ELSE "critical"

\* complete = check mark, high = green, medium = yellow, low = orange,
\* critical = red circle
get_status_emoji(p) ==
    IF RatGeq(p, 100) THEN "complete"
    ELSE IF RatGeq(p, 75) THEN "high"
    ELSE IF RatGeq(p, 50) THEN "medium"
    ELSE IF RatGeq(p, 25) THEN "low"
    ELSE "critical"

\* ---- blocks ----------------------------------------------------------------
Block(type, role) ==
    [type |-> type, role |-> role, name |-> "", pct |-> Zero,
     a |-> 0, b |-> 0, text |-> "", bar |-> <<>>]

divider == Block("divider", "divider")

create_project_block(project, milestone_data) ==
    LET pp == milestone_data.progress_percentage
        progress_bar == create_progress_bar(pp, DefaultWidth)
        state_text == IF milestone_data.state = "closed" THEN "Closed" ELSE "Open"
    IN << [Block("header", "project_name") EXCEPT !.name = project.name],
          [Block("section", "progress") EXCEPT !.name = milestone_data.title,
               !.pct = pp, !.a = milestone_data.closed_issues,
               !.b = milestone_data.total_issues, !.text = state_text],
          [Block("section", "progress_bar") EXCEPT !.bar = progress_bar, !.pct = pp],
          [Block("section", "info") EXCEPT !.text = "Last Updated"],
          [Block("actions", "buttons") EXCEPT !.name = milestone_data.title],
          divider >>

error_block(milestone) ==
    [Block("section", "error") EXCEPT !.name = milestone.name,
         !.text = "Failed to fetch milestone data"]

\* ---- create_summary_blocks --------------------------------------------------
RECURSIVE sum_progress(_)
sum_progress(md) ==
    IF Len(md) = 0 THEN Zero
    ELSE LET data == Head(md)[2]
         IN RatAdd(IF Truthy(data) THEN data.progress_percentage ELSE Zero,
                   sum_progress(Tail(md)))

total_milestones(md) == Len(md)

completed_milestones(md) ==
    Cardinality({i \in 1..Len(md) :
        Truthy(md[i][2]) /\ RatGeq(md[i][2].progress_percentage, 100)})

avg_progress(md) ==
    IF total_milestones(md) > 0
    THEN RatDivInt(sum_progress(md), total_milestones(md))
    ELSE Zero

create_summary_blocks(md) ==
    << Block("header", "summary_header"),
       [Block("section", "summary") EXCEPT !.a = total_milestones(md),
            !.b = completed_milestones(md), !.pct = avg_progress(md)],
       divider >>

\* ---- generate_weekly_report: assembling the blocks ---------------------------
no_milestones_never(ms) == FALSE

\* `if not self.milestones`
no_milestones(ms) == Len(ms) = 0

milestone_blocks_skip_failed(pair) ==
    IF Truthy(pair[2]) THEN create_project_block(pair[1], pair[2])
    ELSE <<>>

\* body of the loop over milestones_data
milestone_blocks(pair) ==
    IF Truthy(pair[2]) THEN create_project_block(pair[1], pair[2])
    ELSE <<error_block(pair[1]), divider>>

RECURSIVE individual_blocks(_)
individual_blocks(md) ==
    IF Len(md) = 0 THEN <<>>
    ELSE milestone_blocks(Head(md)) \o individual_blocks(Tail(md))

remove_last_divider_keep(blocks) == blocks

remove_last_divider(blocks) ==
    IF Len(blocks) > 0 /\ blocks[Len(blocks)].type = "divider"
    THEN SubSeq(blocks, 1, Len(blocks) - 1)
    ELSE blocks

project_header == Block("header", "project_header")

footer_block == Block("context", "footer")

\* all_blocks before the trim and the footer
untrimmed_blocks(md) ==
    <<project_header>> \o create_summary_blocks(md) \o individual_blocks(md)

report_blocks(md) ==
    Append(remove_last_divider(untrimmed_blocks(md)), footer_block)

\* ---- send_slack_message: the value returned for each outcome of the post -----
PostOutcomes == {"ok", "not_ok", "http_error", "transport_error"}

send_slack_message_ignore_ok(outcome) ==
    outcome \in {"ok", "not_ok"}

send_slack_message(outcome) == outcome = "ok"

send_slack_message_line(outcome) ==
    IF outcome = "ok" THEN Line("Successfully sent progress report to Slack!", "", 0)
    ELSE IF outcome = "not_ok" THEN Line("Slack API error", "", 0)
    ELSE Line("Error sending Slack message", "", 0)

\* ---- state machine of one process run ------------------------------------------
RemoteMilestone ==
    [state : {"open", "closed"}, open_issues : 0..MaxIssues,
     closed_issues : 0..MaxIssues]

Init ==
    /\ pc = "main"
    /\ env = [v \in EnvVars |-> None]
    /\ bot = NoBot
    /\ remote = <<>>
    /\ milestones = <<>>
    /\ milestones_data = <<>>
    /\ all_blocks = <<>>
    /\ requests = <<>>
    /\ send_calls = <<>>
    /\ out = <<>>
    /\ success = FALSE
    /\ percentage = Zero
    /\ width = 0
    /\ bar = <<>>
    /\ emoji = ""

\* main(): read the environment, validate, construct the bot.  Both branches
\* of the test on sys.argv go on to generate_weekly_report.
Main ==
    /\ pc = "main"
    /\ \E e \in [EnvVars -> EnvValues] :
        /\ env' = e
        /\ IF missing_variable(e) # ""
           THEN /\ out' = <<Line("Missing environment variable", missing_variable(e), 0)>>
                /\ bot' = bot
                /\ pc' = "exit"
           ELSE /\ bot' = ProgressBot(e["SLACK_BOT_TOKEN"], e["GITHUB_TOKEN"],
                                      e["SLACK_USER_ID"])
                /\ out' = <<Line("Generating weekly progress report", "", 0)>>
                /\ pc' = "discover"
    /\ UNCHANGED <<remote, milestones, milestones_data, all_blocks, requests,
                   send_calls, success>>
    /\ UNCHANGED pureVars

\* where generate_weekly_report goes once self.milestones is assigned
AfterDiscovery(ms) ==
    IF no_milestones(ms) THEN "done"
    ELSE IF Len(ms) = 0 THEN "build"
    ELSE "fetch"

\* discover_all_milestones answers with the repository's milestones
DiscoverOk ==
    /\ pc = "discover"
    /\ \E k \in 0..MaxMilestones : \E f \in [1..k -> RemoteMilestone] :
        LET response == [j \in 1..k |->
                            [number |-> j, title |-> Titles[j],
                             state |-> f[j].state,
                             open_issues |-> f[j].open_issues,
                             closed_issues |-> f[j].closed_issues]]
            ms == discover_all_milestones(response)
        IN /\ remote' = response
           /\ milestones' = ms
           /\ requests' = Append(requests, Req("github", "list", 0, "ok"))
           /\ out' = out \o <<Line("Discovered milestones", "", Len(ms))>>
                         \o (IF no_milestones(ms)
                             THEN <<Line("No milestones found in the repository", "", 0)>>
                             ELSE <<>>)
           /\ pc' = AfterDiscovery(ms)
    /\ UNCHANGED <<env, bot, milestones_data, all_blocks, send_calls, success>>
    /\ UNCHANGED pureVars

\* the discovery request raises requests.RequestException
DiscoverFail ==
    /\ pc = "discover"
    /\ milestones' = <<>>
    /\ requests' = Append(requests, Req("github", "list", 0, "error"))
    /\ out' = out \o <<Line("Error discovering milestones", "", 0)>>
                  \o (IF no_milestones(<<>>)
                      THEN <<Line("No milestones found in the repository", "", 0)>>
                      ELSE <<>>)
    /\ pc' = AfterDiscovery(<<>>)
    /\ UNCHANGED <<env, bot, remote, milestones_data, all_blocks,
                   send_calls, success>>
    /\ UNCHANGED pureVars

\* one iteration of the loop that collects milestones_data
Fetch ==
    /\ pc = "fetch"
    /\ LET milestone == milestones[Len(milestones_data) + 1]
       IN \E ok \in BOOLEAN :
           /\ requests' = Append(requests,
                  Req("github", "get", milestone.milestone_number,
                      IF ok THEN "ok" ELSE "error"))
           /\ milestones_data' = Append(milestones_data,
                  <<milestone,
                    IF ok THEN get_milestone_data(remote[milestone.milestone_number])
                    ELSE NoData>>)
           /\ out' = out \o <<Line("Fetching data", milestone.name, 0)>>
                         \o (IF ok THEN <<>>
                             ELSE <<Line("Error fetching milestone data", milestone.name, 0)>>)
    /\ pc' = IF Len(milestones_data) + 1 = Len(milestones) THEN "build" ELSE "fetch"
    /\ UNCHANGED <<env, bot, remote, milestones, all_blocks, send_calls, success>>
    /\ UNCHANGED pureVars

\* header, summary, per-milestone blocks, trim of the last divider, footer
Build ==
    /\ pc = "build"
    /\ all_blocks' = report_blocks(milestones_data)
    /\ pc' = "send"
    /\ UNCHANGED <<env, bot, remote, milestones, milestones_data, requests,
                   send_calls, out, success>>
    /\ UNCHANGED pureVars

\* send_slack_message(all_blocks) and the final line of the report
Send ==
    /\ pc = "send"
    /\ \E outcome \in PostOutcomes :
        /\ requests' = Append(requests, Req("slack", "post", 0, outcome))
        /\ send_calls' = Append(send_calls,
               [channel |-> bot.user_id, blocks |-> all_blocks,
                text |-> "Weekly Progress Report"])
        /\ success' = send_slack_message(outcome)
        /\ out' = out \o <<send_slack_message_line(outcome),
                           IF send_slack_message(outcome)
                           THEN Line("Report sent", "",
                                     Cardinality({i \in 1..Len(milestones_data) :
                                                    Truthy(milestones_data[i][2])}))
                           ELSE Line("Failed to send report", "", 0)>>
    /\ pc' = "done"
    /\ UNCHANGED <<env, bot, remote, milestones, milestones_data, all_blocks>>
    /\ UNCHANGED pureVars

Next == Main \/ DiscoverOk \/ DiscoverFail \/ Fetch \/ Build \/ Send

Spec == Init /\ [][Next]_vars

\* ---- the formatting functions on their own ---------------------------------------
InitPure ==
    /\ pc = "call"
    /\ env = [v \in EnvVars |-> None]
    /\ bot = NoBot
    /\ remote = <<>>
    /\ milestones = <<>>
    /\ milestones_data = <<>>
    /\ all_blocks = <<>>
    /\ requests = <<>>
    /\ send_calls = <<>>
    /\ out = <<>>
    /\ success = FALSE
    /\ percentage \in Percentages
    /\ width \in 0..MaxWidth
    /\ bar = <<>>
    /\ emoji = ""

CallProgressBar ==
    /\ pc = "call"
    /\ bar' = create_progress_bar(percentage, width)
    /\ pc' = "bar_returned"
    /\ UNCHANGED <<percentage, width, emoji>>
    /\ UNCHANGED reportVars

CallStatusEmoji ==
    /\ pc = "call"
    /\ emoji' = get_status_emoji(percentage)
    /\ pc' = "emoji_returned"
    /\ UNCHANGED <<percentage, width, bar>>
    /\ UNCHANGED reportVars

NextPure == CallProgressBar \/ CallStatusEmoji

SpecPure == InitPure /\ [][NextPure]_vars

\* ---- properties -------------------------------------------------------------------
Present(i) == Truthy(milestones_data[i][2])

Succeeded == {i \in 1..Len(milestones_data) : Present(i)}

Built == pc \in {"send", "done"} /\ Len(all_blocks) > 0

\* the summary section is the third block of the report
SummarySection == all_blocks[3]

\* number of blocks a milestone contributes before the trim
SetSize(i) == IF Present(i) THEN 6 ELSE 2

RECURSIVE Offset(_)
Offset(i) == IF i = 1 THEN 4 ELSE Offset(i - 1) + SetSize(i - 1)

IsGet(r) == r.api = "github" /\ r.op = "get"

IsPost(r) == r.api = "slack" /\ r.op = "post"

Posts == SelectSeq(requests, IsPost)

Gets == SelectSeq(requests, IsGet)

\* C1: the reported average progress is the sum of the percentages of the
\* successfully fetched milestones divided by the number of successful
\* fetches, and 0 when no fetch succeeded.
C1_AverageOverSuccessfulFetches ==
    Built =>
        SummarySection.pct =
            IF Cardinality(Succeeded) > 0
            THEN RatDivInt(sum_progress(milestones_data), Cardinality(Succeeded))
            ELSE Zero

\* C2: the reported total is the number of milestones whose fetch succeeded
\* and the reported completed count is the number of those at 100% or more.
C2_CountsExcludeFailedFetches ==
    Built =>
        /\ SummarySection.a = Cardinality(Succeeded)
        /\ SummarySection.b =
              Cardinality({i \in Succeeded :
                  milestones_data[i][2].progress_percentage.n >=
                      100 * milestones_data[i][2].progress_percentage.d})

\* every milestone was fetched exactly once, in discovery order, and the one
\* message handed to send_slack_message is the report that was built
FetchedOnceInOrderAndSentOnce ==
    /\ Len(milestones_data) = Len(milestones)
    /\ Len(Gets) = Len(milestones)
    /\ \A i \in 1..Len(milestones) :
          /\ Gets[i].number = milestones[i].milestone_number
          /\ milestones_data[i][1] = milestones[i]
          /\ Present(i) <=> Gets[i].response = "ok"
    /\ Len(send_calls) = 1
    /\ Len(Posts) = 1
    /\ send_calls[1].blocks = all_blocks

\* the five content blocks of a fetched milestone start right after position o
SuccessContentAt(blocks, o, i) ==
    /\ Len(blocks) >= o + 5
    /\ blocks[o + 1].role = "project_name"
    /\ blocks[o + 1].name = milestones[i].name
    /\ blocks[o + 2].role = "progress"
    /\ blocks[o + 2].pct = milestones_data[i][2].progress_percentage
    /\ blocks[o + 3].role = "progress_bar"
    /\ blocks[o + 4].role = "info"
    /\ blocks[o + 5].role = "buttons"

FailureSectionAt(blocks, o, i) ==
    /\ Len(blocks) >= o + 1
    /\ blocks[o + 1].role = "error"
    /\ blocks[o + 1].name = milestones[i].name

\* C3 (as stated): with at least one discovered milestone a finished run has
\* fetched every milestone once in order and has sent once a message holding,
\* per milestone in order, the six blocks of create_project_block (divider
\* included) or the failure section naming the milestone.
C3_SixBlockSetForEveryFetchedMilestone ==
    (pc = "done" /\ Len(milestones) >= 1) =>
        /\ FetchedOnceInOrderAndSentOnce
        /\ \A i \in 1..Len(milestones) :
              IF Present(i)
              THEN /\ SuccessContentAt(all_blocks, Offset(i), i)
                   /\ all_blocks[Offset(i) + 6].type = "divider"
              ELSE FailureSectionAt(all_blocks, Offset(i), i)

\* C3 (amended): as above, except that the set of the last milestone is
\* delivered without its trailing divider (five blocks when it was fetched);
\* the message holds nothing but the header, the summary, these sets and the
\* footer.
C3_OneFragmentSetPerMilestoneInOrder ==
    (pc = "done" /\ Len(milestones) >= 1) =>
        LET n == Len(milestones) IN
        /\ FetchedOnceInOrderAndSentOnce
        /\ Len(all_blocks) = Offset(n) + SetSize(n)
        /\ all_blocks[1].role = "project_header"
        /\ all_blocks[2].role = "summary_header"
        /\ all_blocks[3].role = "summary"
        /\ all_blocks[4].type = "divider"
        /\ all_blocks[Len(all_blocks)].role = "footer"
        /\ \A i \in 1..n :
              /\ IF Present(i)
                 THEN SuccessContentAt(all_blocks, Offset(i), i)
                 ELSE FailureSectionAt(all_blocks, Offset(i), i)
              /\ i < n => all_blocks[Offset(i) + SetSize(i)].type = "divider"

C3_Witness ==
    /\ pc = "done"
    /\ Len(milestones) = 2
    /\ ~Present(1)
    /\ Present(2)
    /\ Len(send_calls) = 1
    /\ Len(all_blocks) = 12

MissingVars == {v \in EnvVars : env[v] = None \/ env[v] = ""}

\* C4: once main has read the environment, a missing or empty required
\* variable means the run has stopped with that variable reported, no bot
\* constructed and no request made; requests are made only when all three
\* are present.
C4_MissingCredentialStopsBeforeAnyRequest ==
    pc # "main" =>
        /\ MissingVars # {} =>
              /\ pc = "exit"
              /\ ~("user_id" \in DOMAIN bot)
              /\ requests = <<>>
              /\ send_calls = <<>>
              /\ Len(out) = 1
              /\ out[1].msg = "Missing environment variable"
              /\ out[1].name \in MissingVars
        /\ MissingVars = {} => (pc # "exit" /\ "user_id" \in DOMAIN bot)
        /\ requests # <<>> => MissingVars = {}

C4_Witness ==
    /\ pc = "exit"
    /\ env["GITHUB_TOKEN"] = "value"
    /\ env["SLACK_BOT_TOKEN"] = "value"
    /\ env["SLACK_USER_ID"] = ""
    /\ out[1].name = "SLACK_USER_ID"
    /\ requests = <<>>

\* C5: the messaging API is posted to at most once per run, and a post that
\* fails (transport error, HTTP error status or ok = false) makes
\* send_slack_message return False and the run end reporting failure.
C5_FailedDeliveryReportedWithoutRetry ==
    /\ Len(Posts) <= 1
    /\ Len(send_calls) = Len(Posts)
    /\ (pc = "done" /\ Len(Posts) = 1 /\ Posts[1].response # "ok") =>
          /\ success = FALSE
          /\ out[Len(out)].msg = "Failed to send report"
          /\ requests[Len(requests)] = Posts[1]

C5_Witness ==
    /\ pc = "done"
    /\ Len(Posts) = 1
    /\ Posts[1].response = "not_ok"
    /\ success = FALSE

\* C6: every fetched snapshot has total = open + closed and a percentage equal
\* to closed/total*100 when total > 0 and to 0 when total = 0, always within
\* [0, 100].
C6_PercentageOfFetchedSnapshot ==
    \A i \in Succeeded :
        LET data == milestones_data[i][2]
            m == remote[milestones_data[i][1].milestone_number]
            p == data.progress_percentage
        IN /\ data.total_issues = m.open_issues + m.closed_issues
           /\ data.closed_issues = m.closed_issues
           /\ p.d > 0
           /\ data.total_issues > 0 =>
                 p.n * data.total_issues = m.closed_issues * 100 * p.d
           /\ data.total_issues = 0 => p.n = 0
           /\ 0 <= p.n /\ p.n <= 100 * p.d

C6_Witness ==
    /\ Len(milestones_data) = 2
    /\ Present(1) /\ Present(2)
    /\ milestones_data[1][2].total_issues = 0
    /\ milestones_data[1][2].progress_percentage = Zero
    /\ milestones_data[2][2].total_issues = 3
    /\ milestones_data[2][2].closed_issues = 1

FilledCells == Cardinality({i \in 1..Len(bar) : bar[i] = "#"})

\* C7: for a percentage in [0, 100] and a width >= 0 the bar is
\* floor(percentage/100 * width) filled cells followed by empty cells, width
\* cells in all; 37.5 at width 20 gives 7 filled and 13 empty.
C7_BarIsFloorFilledThenEmpty ==
    pc = "bar_returned" =>
        /\ Len(bar) = width
        /\ FilledCells * 100 * percentage.d <= percentage.n * width
        /\ percentage.n * width < (FilledCells + 1) * 100 * percentage.d
        /\ \A i \in 1..Len(bar) :
              bar[i] = IF i <= FilledCells THEN "#" ELSE "-"
        /\ (percentage = [n |-> 75, d |-> 2] /\ width = DefaultWidth) =>
              FilledCells = 7

\* C8: the status is complete at 100 or more, high from 75, medium from 50,
\* low from 25 and critical below 25.
C8_StatusEmojiThresholds ==
    pc = "emoji_returned" =>
        LET n == percentage.n
            d == percentage.d
        IN /\ n >= 100 * d => emoji = "complete"
           /\ (75 * d <= n /\ n < 100 * d) => emoji = "high"
           /\ (50 * d <= n /\ n < 75 * d) => emoji = "medium"
           /\ (25 * d <= n /\ n < 50 * d) => emoji = "low"
           /\ n < 25 * d => emoji = "critical"

C8_Witness ==
    /\ pc = "emoji_returned"
    /\ percentage = [n |-> 75, d |-> 1]
    /\ emoji = "high"

Dividers(blocks) == Cardinality({i \in 1..Len(blocks) : blocks[i].type = "divider"})

\* C9: the report handed to send_slack_message ends with the footer, the block
\* before the footer is not a divider, exactly one divider (the last one) was
\* removed, and every milestone but the last still ends with its divider.
C9_LastDividerTrimmedBeforeFooter ==
    (Built /\ Len(milestones) >= 1) =>
        LET u == untrimmed_blocks(milestones_data)
            n == Len(all_blocks)
        IN /\ all_blocks[n].role = "footer"
           /\ all_blocks[n - 1].type # "divider"
           /\ u[Len(u)].type = "divider"
           /\ all_blocks = Append(SubSeq(u, 1, Len(u) - 1), all_blocks[n])
           /\ Dividers(all_blocks) = Dividers(u) - 1
           /\ \A i \in 1..(Len(milestones) - 1) :
                 all_blocks[Offset(i) + SetSize(i)].type = "divider"
           /\ \A k \in 1..Len(send_calls) : send_calls[k].blocks = all_blocks

C9_Witness ==
    /\ pc = "done"
    /\ Len(milestones) = 2
    /\ Present(1)
    /\ ~Present(2)
    /\ Len(send_calls) = 1
    /\ send_calls[1].blocks[Len(send_calls[1].blocks) - 1].role = "error"

\* C10: when discovery yields no milestone (empty collection or failed
\* request) the run ends at once: no fetch, no blocks, no send.
C10_EmptyDiscoveryEndsRun ==
    (pc \in {"fetch", "build", "send", "done"} /\ Len(milestones) = 0) =>
        /\ pc = "done"
        /\ Len(requests) = 1
        /\ requests[1].op = "list"
        /\ milestones_data = <<>>
        /\ all_blocks = <<>>
        /\ send_calls = <<>>
        /\ out[Len(out)].msg = "No milestones found in the repository"

C10_Witness ==
    /\ pc = "done"
    /\ Len(requests) = 1
    /\ requests[1].response = "error"
    /\ milestones = <<>>
    /\ send_calls = <<>>

====
